---------------------------- MODULE Spec2Model ----------------------------
(***************************************************************************)
(* Text Summarization API: POST /summaries, GET /, GET /health             *)
(* (src/main.py) behind LoggingMiddleware (src/middleware.py).             *)
(*                                                                         *)
(* A text is a sequence of code points.  Every client slot holds           *)
(* the locals of one in-flight request: what dispatch() keeps across its   *)
(* await of call_next, the validated request and the downstream response.  *)
(* The logging sink is the only shared state.  Time is the logical time of *)
(* one exchange: a reading of the clock is the number of events of that    *)
(* exchange that happened before it.                                       *)
(***************************************************************************)
EXTENDS Integers, Sequences, FiniteSets

VARIABLES
    app,      \* "up", or "import_error" when importing the modules failed
    req,      \* client slot -> the locals of its current request / response
    log,      \* records emitted by logger.info, in emission order
    nreq      \* number of requests that have entered dispatch so far

vars == <<app, req, log, nreq>>

-----------------------------------------------------------------------------
(* Bounds of the model. *)

NClients == 2
MaxRequests == 3
MaxLen == 4
MaxTokens == 11

(* Program constant: create_summary calls get_first_n_words(words, n=10). *)
SummaryWords == 10

Clients == 1..NClients

-----------------------------------------------------------------------------
(* Characters and whitespace *)

\* The code points str.split() and str.strip() treat as whitespace, which are
\* those of str.isspace(): \t \n \x0b \x0c \r, \x1c-\x1f, space, \x85, \xa0
\* and the Unicode spaces and line separators.
Whitespace ==
    {9, 10, 11, 12, 13, 28, 29, 30, 31, 32, 133, 160, 5760}
        \cup (8192..8202) \cup {8232, 8233, 8239, 8287, 12288}

IsSpace(ch) == ch \in Whitespace

\* The alphabet inputs are drawn from: a, b, space, tab, vertical tab (\x0b)
\* and no-break space (\xa0).
Chars == {97, 98, 32, 9, 11, 160}

Min(a, b) == IF a <= b THEN a ELSE b


-----------------------------------------------------------------------------
(* String operations of main.py, computed as Python computes them *)

\* str.split() with no separator: scan left to right, a whitespace character
\* ends the run being collected, a run is emitted only when it is not empty.
RECURSIVE SplitScan(_, _, _, _)
SplitScan(s, i, cur, acc) ==
    IF i > Len(s)
    THEN IF cur = <<>> THEN acc ELSE Append(acc, cur)
    ELSE IF IsSpace(s[i])
         THEN SplitScan(s, i + 1, <<>>, IF cur = <<>> THEN acc ELSE Append(acc, cur))
         ELSE SplitScan(s, i + 1, Append(cur, s[i]), acc)

split(s) == SplitScan(s, 1, <<>>, <<>>)

\* [word for word in text.split() if word]
extract_words(text) == SelectSeq(split(text), LAMBDA word : word # <<>>)

\* Mutant of get_first_n_words: words[:n + 1], one word too many.
get_first_n_words_extra(words, n) == SubSeq(words, 1, Min(n + 1, Len(words)))

\* Mutant of get_first_n_words: words[1:n], the first word lost.
get_first_n_words_skip(words, n) == SubSeq(words, 2, Min(n, Len(words)))

\* words[:n]: a negative n counts from the end of the list.
get_first_n_words(words, n) ==
    IF n >= 0
    THEN SubSeq(words, 1, Min(n, Len(words)))
    ELSE SubSeq(words, 1, Len(words) + n)

\* sep.join(words)
RECURSIVE join(_, _)
join(sep, words) ==
    IF words = <<>> THEN <<>>
    ELSE IF Len(words) = 1 THEN words[1]
    ELSE words[1] \o sep \o join(sep, Tail(words))

\* Mutant of strip: strip(" "), which leaves tabs and line breaks in place.
RECURSIVE lstrip_sp(_)
lstrip_sp(s) == IF s # <<>> /\ Head(s) = 32 THEN lstrip_sp(Tail(s)) ELSE s

RECURSIVE rstrip_sp(_)
rstrip_sp(s) ==
    IF s # <<>> /\ s[Len(s)] = 32 THEN rstrip_sp(SubSeq(s, 1, Len(s) - 1)) ELSE s

strip_spaces_only(s) == rstrip_sp(lstrip_sp(s))

RECURSIVE lstrip(_)
lstrip(s) == IF s # <<>> /\ IsSpace(Head(s)) THEN lstrip(Tail(s)) ELSE s

RECURSIVE rstrip(_)
rstrip(s) ==
    IF s # <<>> /\ IsSpace(s[Len(s)]) THEN rstrip(SubSeq(s, 1, Len(s) - 1)) ELSE s

\* str.strip()
strip(s) == rstrip(lstrip(s))

-----------------------------------------------------------------------------
(* SummaryRequest: Field(..., min_length=1) and then validate_text *)

MinLengthError == "String should have at least 1 character"
ValueErrorText == "Text cannot be empty or only whitespace"
NoError == "ok"

\* Mutant of validate_text: `if not v`, the strip() forgotten.
validate_text_nostrip(v) == IF v = <<>> THEN ValueErrorText ELSE NoError

\* validate_text: raises ValueError when v.strip() is empty, else returns v.
validate_text(v) == IF strip(v) = <<>> THEN ValueErrorText ELSE NoError

\* The model's validation of the body: the min_length constraint of the
\* field first, the field validator after it.
SummaryRequest(text) ==
    IF Len(text) < 1 THEN MinLengthError ELSE validate_text(text)

-----------------------------------------------------------------------------
(* Responses *)

JsonHeaders == <<"content-type: application/json">>

NoResponse == [status |-> 0, headers |-> <<>>, body |-> [none |-> TRUE]]

JSONResponse(status, body) ==
    [status |-> status, headers |-> JsonHeaders, body |-> body]

\* @app.get("/")
root ==
    JSONResponse(200, [status  |-> "healthy",
                       service |-> "Text Summarization API",
                       version |-> "1.0.0"])

\* Mutant of health: reports the failures the service has logged.
health_degraded ==
    IF \E i \in 1..Len(log) : log[i].status_code >= 500
    THEN JSONResponse(503, [status |-> "degraded"])
    ELSE JSONResponse(200, [status |-> "ok"])

\* @app.get("/health")
health == JSONResponse(200, [status |-> "ok"])

\* A request the validation of SummaryRequest rejects: 422 with the error.
ValidationErrorResponse(err) == JSONResponse(422, [detail |-> <<err>>])

-----------------------------------------------------------------------------
(* create_summary *)

NoFault == [at |-> -1, msg |-> ""]

\* The unexpected exceptions of the model: `at` is the number of steps of the
\* try block done before the fault (on its first statement; when the response
\* object is built), msg is what str(e) gives.
Faults ==
    {[at |-> 0, msg |-> "MemoryError at /srv/app/main.py:120"],
     [at |-> 4, msg |-> "ValidationError: secret"]}

FaultMessages == {f.msg : f \in Faults}

\* Mutant of HandlerSteps: the timestamp taken on entry.
HandlerStepsTsFirst == <<"timestamp", "tokenize", "truncate", "join", "response">>

\* The steps of the try block, in program order.
HandlerSteps == <<"tokenize", "truncate", "join", "timestamp", "response">>

\* raise HTTPException(status_code=500, detail=f"Error processing text: {str(e)}")
HTTPException500(msg) ==
    JSONResponse(500, [detail |-> <<"Error processing text: ", msg>>])

\* The locals of one invocation of create_summary on entry; clk is the time.
HandlerLocals(text, clk) ==
    [text |-> text, words |-> <<>>, first_words |-> <<>>, summary |-> <<>>,
     timestamp |-> 0, clk |-> clk, done |-> <<>>, response |-> NoResponse]

\* One statement of the try block, acting on the locals.
ExecStep(step, e) ==
    LET f == [e EXCEPT !.done = Append(@, step)]
    IN  CASE step = "tokenize"  -> [f EXCEPT !.words = extract_words(e.text)]
          [] step = "truncate"  ->
                 [f EXCEPT !.first_words = get_first_n_words(e.words, SummaryWords)]
          [] step = "join"      -> [f EXCEPT !.summary = join(<<32>>, e.first_words)]
          [] step = "timestamp" -> [f EXCEPT !.timestamp = e.clk + Len(e.done)]
          [] step = "response"  ->
                 [f EXCEPT !.response =
                      JSONResponse(200, [summary   |-> e.summary,
                                         timestamp |-> e.timestamp])]

RECURSIVE RunSteps(_, _)
RunSteps(steps, e) ==
    IF steps = <<>> THEN e ELSE RunSteps(Tail(steps), ExecStep(Head(steps), e))

\* The whole handler on a validated text, entered at time clk.
\* Result: the response and the steps performed, in order.
\* A fault is caught by `except Exception` and becomes the HTTPException.
create_summary(text, clk, fault) ==
    LET n == IF fault = NoFault THEN Len(HandlerSteps) ELSE fault.at
        e == RunSteps(SubSeq(HandlerSteps, 1, n), HandlerLocals(text, clk))
    IN  IF fault = NoFault
        THEN [response |-> e.response, events |-> e.done]
        ELSE [response |-> HTTPException500(fault.msg),
              events   |-> Append(e.done, "except")]

-----------------------------------------------------------------------------
(* LoggingMiddleware.dispatch *)

\* Mutant of LoggedPath: the path kept in an attribute of the middleware
\* object, which a request that entered dispatch meanwhile has overwritten.
LoggedPathShared(c) ==
    LET later == {d \in Clients \ {c} :
                     req[d].pc \in {"call_next", "validated", "responded"}}
    IN  IF later = {} THEN req[c].path ELSE req[CHOOSE d \in later : TRUE].path

\* path = request.url.path, a local of the invocation serving client c
LoggedPath(c) == req[c].path

\* status_code = response.status_code
LoggedStatus(c) == req[c].response.status

\* Mutant of dispatch_return: the elapsed time added as a response header.
dispatch_return_hdr(response) ==
    [response EXCEPT !.headers = Append(@, "x-process-time")]

\* return response
dispatch_return(response) == response

\* The record logger.info emits.
LogRecord(c, now) ==
    [path           |-> LoggedPath(c),
     execution_time |-> (now - req[c].start_time) * 1000,
     status_code    |-> LoggedStatus(c)]

-----------------------------------------------------------------------------
(* Inputs *)

\* Every text of at most MaxLen characters.
ShortTexts == UNION {[1..n -> Chars] : n \in 0..MaxLen}

\* The i-th word of a long text: a, b, aa, ab, ba, bb, aaa, ... all distinct.
RECURSIVE Word(_)
Word(i) ==
    LET rest == (i - 1) \div 2
        last == IF (i - 1) % 2 = 0 THEN 97 ELSE 98
    IN  (IF rest = 0 THEN <<>> ELSE Word(rest)) \o <<last>>

Separators == {<<32>>, <<32, 32>>, <<9>>, <<11, 32>>, <<160>>}
Paddings == {<<>>, <<32>>}

\* k distinct words separated by sep, with pad before and after.
LongText(k, sep, pad) == pad \o join(sep, [i \in 1..k |-> Word(i)]) \o pad

LongTexts ==
    {LongText(k, sep, pad) : k \in 1..MaxTokens, sep \in Separators, pad \in Paddings}

Texts == ShortTexts \cup LongTexts

\* The texts of the concurrent specification: one that validation rejects and
\* one of MaxTokens irregularly spaced words.
ConcurrentTexts == {<<11>>, LongText(MaxTokens, <<11, 32>>, <<32>>)}

Requests(T) ==
    {[method |-> "GET", path |-> "/", text |-> <<>>],
     [method |-> "GET", path |-> "/health", text |-> <<>>]}
        \cup {[method |-> "POST", path |-> "/summaries", text |-> t] : t \in T}

-----------------------------------------------------------------------------
(* State *)

IdleSlot ==
    [pc |-> "idle", method |-> "", path |-> "", text |-> <<>>,
     start_time |-> 0, response |-> NoResponse, returned |-> NoResponse,
     hist |-> <<>>, resub |-> FALSE, prev |-> <<>>]

\* What importing main.py gives.  middleware.py annotates __init__ with
\* ASGIApp, a name it never imports: an interpreter that evaluates annotations
\* when the function is defined raises NameError there and no app is built;
\* one that defers them goes on to build the app.
ImportOutcomes == {"up", "import_error"}

Init ==
    /\ app \in ImportOutcomes
    /\ req = [c \in Clients |-> IdleSlot]
    /\ log = <<>>
    /\ nreq = 0

-----------------------------------------------------------------------------
(* Actions *)

\* dispatch, up to its await of call_next: start_time = time.time() and
\* path = request.url.path.  A slot serves one request at a time.
Dispatch(c, r, resub, prev) ==
    /\ app = "up"
    /\ req[c].pc \in {"idle", "returned", "raised"}
    /\ nreq < MaxRequests
    /\ req' = [req EXCEPT ![c] =
                  [pc |-> "call_next",
                   method |-> r.method, path |-> r.path, text |-> r.text,
                   start_time |-> 0,
                   response |-> NoResponse, returned |-> NoResponse,
                   hist |-> <<"timer_start">>, resub |-> resub, prev |-> prev]]
    /\ nreq' = nreq + 1
    /\ UNCHANGED <<app, log>>

\* A client sends any request of the HTTP surface.
Send(c, T) == \E r \in Requests(T) : Dispatch(c, r, FALSE, <<>>)

\* A client posts the summary it was just returned as the text of a new request.
Resubmit(c) ==
    /\ req[c].pc = "returned"
    /\ req[c].path = "/summaries"
    /\ req[c].returned.status = 200
    /\ Dispatch(c, [method |-> "POST", path |-> "/summaries",
                    text |-> req[c].returned.body.summary],
                TRUE, req[c].returned.body.summary)

\* The downstream application produced `response` for the request of c.
Respond(c, response, events) ==
    req' = [req EXCEPT ![c].pc = "responded",
                       ![c].response = response,
                       ![c].hist = @ \o events]

\* GET /
Root(c) ==
    /\ req[c].pc = "call_next"
    /\ req[c].method = "GET" /\ req[c].path = "/"
    /\ Respond(c, root, <<"response">>)
    /\ UNCHANGED <<app, log, nreq>>

\* GET /health
Health(c) ==
    /\ req[c].pc = "call_next"
    /\ req[c].method = "GET" /\ req[c].path = "/health"
    /\ Respond(c, health, <<"response">>)
    /\ UNCHANGED <<app, log, nreq>>

\* POST /summaries: the body is parsed into a SummaryRequest before the
\* handler is called; a rejected body is answered 422 without calling it.
Validate(c) ==
    /\ req[c].pc = "call_next"
    /\ req[c].method = "POST" /\ req[c].path = "/summaries"
    /\ LET err == SummaryRequest(req[c].text)
       IN  IF err = NoError
           THEN req' = [req EXCEPT ![c].pc = "validated",
                                   ![c].hist = Append(@, "validate")]
           ELSE Respond(c, ValidationErrorResponse(err), <<"validate", "response">>)
    /\ UNCHANGED <<app, log, nreq>>

\* create_summary runs to its return without an await.
RunHandler(c, fault) ==
    /\ req[c].pc = "validated"
    /\ LET res == create_summary(req[c].text, Len(req[c].hist), fault)
       IN  Respond(c, res.response, res.events)
    /\ UNCHANGED <<app, log, nreq>>

CreateSummary(c) == RunHandler(c, NoFault)

\* An unexpected exception inside the try block.
CreateSummaryFault(c) == \E fault \in Faults : RunHandler(c, fault)

\* await call_next(request) raises instead of returning a response: the task
\* is cancelled while the request is still being read (CancelledError is no
\* Exception, no except clause downstream catches it) or the client went away
\* before a response started.  dispatch has no try/finally around the await:
\* the exception propagates.
CallNextRaises(c) ==
    /\ req[c].pc = "call_next"
    /\ req' = [req EXCEPT ![c].pc = "raised", ![c].hist = Append(@, "raise")]
    /\ UNCHANGED <<app, log, nreq>>

\* dispatch after call_next returned: execution_time, status_code,
\* logger.info(...), return response.  No await in between.
DispatchFinish(c) ==
    /\ req[c].pc = "responded"
    /\ log' = Append(log, LogRecord(c, Len(req[c].hist)))
    /\ req' = [req EXCEPT ![c].pc = "returned",
                          ![c].returned = dispatch_return(req[c].response),
                          ![c].hist = @ \o <<"timer_stop", "log", "return">>]
    /\ UNCHANGED <<app, nreq>>

Step(c, T) ==
    \/ Send(c, T)
    \/ Root(c)
    \/ Health(c)
    \/ Validate(c)
    \/ CreateSummary(c)
    \/ CreateSummaryFault(c)
    \/ CallNextRaises(c)
    \/ DispatchFinish(c)

\* The server under concurrent clients.
Next == \E c \in Clients : Step(c, ConcurrentTexts)

Spec == Init /\ [][Next]_vars

\* The first request of a run posts any text of the input bounds.
PostFirst(c, T) ==
    /\ nreq = 0
    /\ \E t \in T :
           Dispatch(c, [method |-> "POST", path |-> "/summaries", text |-> t],
                    FALSE, <<>>)

\* One client posts a text of the input bounds, then resubmits what it gets.
NextSeq ==
    \/ PostFirst(1, Texts)
    \/ Resubmit(1)
    \/ Validate(1)
    \/ CreateSummary(1)
    \/ DispatchFinish(1)

SpecSeq == Init /\ [][NextSeq]_vars

-----------------------------------------------------------------------------
(* Vocabulary of the properties, stated without the operators of the code *)

IsSummaryPost(c) == req[c].method = "POST" /\ req[c].path = "/summaries"

\* The downstream response of the request of c exists.
HasResponse(c) == req[c].pc \in {"responded", "returned"}

\* Text with at least one character that is not whitespace.
HasNonSpace(t) == \E i \in 1..Len(t) : t[i] \notin Whitespace

\* The maximal runs of non-whitespace characters of t, as <<first, last>>.
Runs(t) ==
    {r \in (1..Len(t)) \X (1..Len(t)) :
        /\ r[1] <= r[2]
        /\ \A k \in r[1]..r[2] : t[k] \notin Whitespace
        /\ r[1] = 1 \/ t[r[1] - 1] \in Whitespace
        /\ r[2] = Len(t) \/ t[r[2] + 1] \in Whitespace}

\* The m-th token of t, counted from the left.
Token(t, m) ==
    LET r == CHOOSE q \in Runs(t) :
                 Cardinality({p \in Runs(t) : p[1] < q[1]}) = m - 1
    IN  [i \in 1..(r[2] - r[1] + 1) |-> t[r[1] + i - 1]]

\* Where the m-th token starts in a string of the tokens of t, each followed
\* by one separating character.
RECURSIVE TokenStart(_, _)
TokenStart(t, m) ==
    IF m = 1 THEN 1 ELSE TokenStart(t, m - 1) + Len(Token(t, m - 1)) + 1

\* s is the first k tokens of t, in order, one space between neighbours.
IsFirstTokens(s, t, k) ==
    /\ Len(s) = IF k = 0 THEN 0 ELSE TokenStart(t, k) + Len(Token(t, k)) - 1
    /\ \A m \in 1..k :
          /\ \A i \in 1..Len(Token(t, m)) :
                s[TokenStart(t, m) + i - 1] = Token(t, m)[i]
          /\ m < k => s[TokenStart(t, m) + Len(Token(t, m))] = 32

-----------------------------------------------------------------------------
(* C1: every text accepted by validation is answered 200 with the first
   min(10, n) of its n tokens, in order, spelled as in the text, joined by
   exactly one space. *)
C1_FirstTenTokens ==
    \A c \in Clients :
        (IsSummaryPost(c) /\ HasNonSpace(req[c].text) /\ HasResponse(c)) =>
            /\ req[c].response.status = 200
            /\ IsFirstTokens(req[c].response.body.summary, req[c].text,
                             Min(10, Cardinality(Runs(req[c].text))))

\* A text of more than ten tokens, with a space before them and no-break
\* spaces between them, was summarized.
C1_Witness ==
    \E c \in Clients :
        /\ IsSummaryPost(c) /\ req[c].pc = "returned"
        /\ Cardinality(Runs(req[c].text)) > 10
        /\ req[c].text[1] = 32
        /\ \E i \in 1..Len(req[c].text) : req[c].text[i] = 160
        /\ req[c].returned.status = 200
        /\ Len(req[c].returned.body.summary) < Len(req[c].text)

(* C2: an empty or whitespace-only text is rejected with 422 by validation:
   the handler never runs on it (nothing is tokenized, no summary and no
   timestamp exist) and the response is never 200 or 500. *)
C2_BlankRejected ==
    \A c \in Clients :
        (IsSummaryPost(c) /\ ~HasNonSpace(req[c].text)) =>
            /\ req[c].pc # "validated"
            /\ \A i \in 1..Len(req[c].hist) :
                  req[c].hist[i] \notin
                      {"tokenize", "truncate", "join", "timestamp", "except"}
            /\ HasResponse(c) =>
                  /\ req[c].response.status = 422
                  /\ DOMAIN req[c].response.body = {"detail"}

\* A text of a vertical tab and a no-break space only was rejected.
C2_Witness ==
    \E c \in Clients :
        /\ IsSummaryPost(c) /\ req[c].pc = "returned"
        /\ req[c].text = <<11, 160>>
        /\ req[c].returned.status = 422

(* C9: a text that passed validation has at least one token, so no 200
   response carries an empty summary. *)
C9_NoEmptySummary ==
    \A c \in Clients :
        /\ req[c].pc = "validated" => Cardinality(Runs(req[c].text)) >= 1
        /\ (IsSummaryPost(c) /\ HasResponse(c) /\ req[c].response.status = 200) =>
               req[c].response.body.summary # <<>>

\* A one-token text between a vertical tab and a no-break space passed validation and was summarized.
C9_Witness ==
    \E c \in Clients :
        /\ IsSummaryPost(c) /\ HasResponse(c)
        /\ Len(req[c].text) >= 3
        /\ req[c].text[1] = 11
        /\ req[c].text[Len(req[c].text)] = 160
        /\ Cardinality(Runs(req[c].text)) = 1
        /\ req[c].response.status = 200
        /\ Len(req[c].response.body.summary) >= 1

\* t is fewer than ten tokens separated by single spaces, nothing around them.
IsShortAndNormal(t) ==
    /\ Len(t) >= 1
    /\ t[1] \notin Whitespace /\ t[Len(t)] \notin Whitespace
    /\ \A i \in 1..Len(t) : t[i] \in Whitespace => (t[i] = 32 /\ t[i + 1] \notin Whitespace)
    /\ Cardinality({i \in 1..Len(t) : t[i] = 32}) + 1 < 10

(* C7: summarization is idempotent: a returned summary posted as the text of
   a new request is accepted and answered with the same summary; a text of
   fewer than ten tokens separated by single spaces, with nothing before or
   after them, is returned unchanged. *)
C7_Idempotent ==
    \A c \in Clients :
        /\ (req[c].resub /\ HasResponse(c)) =>
               /\ req[c].response.status = 200
               /\ req[c].response.body.summary = req[c].prev
        /\ (IsSummaryPost(c) /\ HasResponse(c) /\ IsShortAndNormal(req[c].text)) =>
               /\ req[c].response.status = 200
               /\ req[c].response.body.summary = req[c].text

\* A summary of ten tokens, cut from a longer text, was resubmitted and answered.
C7_Witness ==
    \E c \in Clients :
        /\ req[c].resub /\ req[c].pc = "returned"
        /\ Cardinality(Runs(req[c].prev)) = 10
        /\ req[c].returned.status = 200
        /\ req[c].returned.body.summary = req[c].text

(* C8: GET /health is answered 200 with {"status": "ok"} in every reachable
   state, whatever requests came before it. *)
C8_HealthAlwaysOk ==
    \A c \in Clients :
        (req[c].method = "GET" /\ req[c].path = "/health" /\ HasResponse(c)) =>
            /\ req[c].response.status = 200
            /\ req[c].response.body = [status |-> "ok"]
            /\ req[c].pc = "returned" =>
                  /\ req[c].returned.status = 200
                  /\ req[c].returned.body = [status |-> "ok"]

\* /health was answered after a rejected and a faulting POST had been logged.
C8_Witness ==
    \E c \in Clients :
        /\ req[c].path = "/health" /\ req[c].pc = "returned"
        /\ \E i, j \in 1..Len(log) :
              /\ log[i].status_code = 500 /\ log[j].status_code = 422
              /\ i < Len(log) /\ j < Len(log)

(* C4: dispatch returns the response it received from call_next with body,
   headers and status code unchanged, for every downstream outcome; its only
   effect besides is the one record added to the log. *)
C4_ResponseUntouched ==
    [][\A c \in Clients :
          (req[c].pc = "responded" /\ req'[c].pc = "returned") =>
              /\ req'[c].returned = req[c].response
              /\ req'[c].response = req[c].response
              /\ req[c].response.status \in {200, 422, 500}
              /\ Len(log') = Len(log) + 1
              /\ SubSeq(log', 1, Len(log)) = log
              /\ nreq' = nreq
              /\ \A d \in Clients \ {c} : req'[d] = req[d]]_vars

\* dispatch has returned a 500 and a 422 response, with their bodies.
C4_Witness ==
    \E c, d \in Clients :
        /\ req[c].pc = "returned" /\ req[c].returned.status = 500
        /\ req[c].returned.body.detail[1] = "Error processing text: "
        /\ req[d].pc = "returned" /\ req[d].returned.status = 422
        /\ req[d].returned.headers = <<"content-type: application/json">>

\* The responses the request of c can get when it is processed alone.
AloneResponses(c) ==
    IF req[c].method = "GET"
    THEN {IF req[c].path = "/" THEN root ELSE health}
    ELSE IF SummaryRequest(req[c].text) # NoError
         THEN {ValidationErrorResponse(SummaryRequest(req[c].text))}
         ELSE {create_summary(req[c].text, 2, f).response : f \in Faults \cup {NoFault}}

(* C6: under any interleaving, the response of a request is one it gets when
   processed alone, its log record carries its own path and its own status
   code, and a step of one invocation leaves every other invocation's values
   as they were. *)
C6_Isolation ==
    [][\A c \in Clients :
          /\ (req[c].pc # "responded" /\ req'[c].pc = "responded") =>
                req'[c].response \in AloneResponses(c)
          /\ (req[c].pc = "responded" /\ req'[c].pc = "returned") =>
                /\ req'[c].returned = req[c].response
                /\ log'[Len(log')].path = req[c].path
                /\ log'[Len(log')].status_code = req[c].response.status
          /\ req'[c] # req[c] => \A d \in Clients \ {c} : req'[d] = req[d]]_vars

\* Two requests with different paths and outcomes were in flight together,
\* and the record of the first is in the log while the second awaits dispatch.
C6_Witness ==
    \E c, d \in Clients :
        /\ c # d
        /\ req[c].pc = "returned" /\ req[d].pc = "responded"
        /\ req[c].path # req[d].path
        /\ req[c].returned.status # req[d].response.status
        /\ Len(log) >= 1
        /\ log[Len(log)].path = req[c].path

\* The events of a successful POST /summaries exchange, in order.
SuccessfulExchange ==
    <<"timer_start", "validate", "tokenize", "truncate", "join", "timestamp",
      "response", "timer_stop", "log", "return">>

(* C10: a successful POST /summaries exchange goes: timer started, text
   tokenized and truncated, timestamp captured, response produced, timer
   stopped and log record emitted, response returned; so the timestamp is
   taken after the tokenization and after the start time. *)
C10_ExchangeOrder ==
    \A c \in Clients :
        (IsSummaryPost(c) /\ req[c].response.status = 200) =>
            /\ req[c].hist = SubSeq(SuccessfulExchange, 1, Len(req[c].hist))
            /\ req[c].pc = "returned" => req[c].hist = SuccessfulExchange
            /\ req[c].response.body.timestamp > req[c].start_time

\* A successful exchange has completed and its record is the last of the log.
C10_Witness ==
    \E c \in Clients :
        /\ IsSummaryPost(c) /\ req[c].pc = "returned"
        /\ req[c].returned.status = 200
        /\ Len(req[c].hist) = 10
        /\ Len(log) >= 1 /\ log[Len(log)].status_code = 200

(* C3: every request that entered dispatch and has left it has had exactly
   one log record emitted, whether the downstream call returned a response
   or ended in a fault. *)
C3_OneRecordPerRequest ==
    Len(log) =
        nreq - Cardinality({c \in Clients :
                               req[c].pc \in {"call_next", "validated", "responded"}})

(* C5: a fault inside create_summary is answered 500 with a generic message:
   the same body for every fault, with no text of the exception in it. *)
C5_GenericServerError ==
    \A c \in Clients :
        (HasResponse(c) /\ req[c].response.status = 500) =>
            /\ \A i \in 1..Len(req[c].response.body.detail) :
                  req[c].response.body.detail[i] \notin FaultMessages
            /\ \A d \in Clients :
                  (HasResponse(d) /\ req[d].response.status = 500) =>
                      req[d].response.body = req[c].response.body

=============================================================================
